---- MODULE Spec2Model ----
(***************************************************************************)
(* A model of files2llm (src/src/App.js): the App component's state, its   *)
(* event handlers, the concurrent file reads joined by Promise.all, the    *)
(* two-strategy clipboard writer and the three export converters.          *)
(* Strings are sequences of one-character strings.                         *)
(***************************************************************************)
EXTENDS Integers, Sequences, FiniteSets, TLC

VARIABLES
  filesData,             \* useState([]): sequence of {fileName, content}
  selectedExportFormat,  \* useState('json')
  isDragging,            \* useState(false)
  copyMessage,           \* useState('')
  batches,               \* the readAndSetFiles invocations, in the order they were started
  pendingCopies,         \* navigator.clipboard.writeText calls not yet settled
  timers,                \* pending setTimeout callbacks, oldest first (all have the same delay)
  clipboard,             \* the text on the system clipboard
  hasClipboardApi,       \* navigator.clipboard && navigator.clipboard.writeText
  tempNodes,             \* number of temporary textareas left in document.body
  nCalls,                \* number of autoCopyToClipboard calls started so far
  nManual,               \* number of copyManually clicks so far
  lastCall,              \* history: the last autoCopyToClipboard call that settled
  msgTimer,              \* history: the timer started by the attempt that set copyMessage
  completed,             \* history: the batches whose reads all succeeded, in order of completion
  cleared,               \* history: clearFiles ran after the last setFilesData
  xmlIn,                 \* a content string handed to convertToXML
  xmlDoc,                \* the document convertToXML returned for it
  xmlPc                  \* "in" before the conversion, "out" after it

vars == <<filesData, selectedExportFormat, isDragging, copyMessage, batches,
          pendingCopies, timers, clipboard, hasClipboardApi, tempNodes, nCalls,
          nManual, lastCall, msgTimer, completed, cleared, xmlIn, xmlDoc, xmlPc>>

appVars == <<filesData, selectedExportFormat, isDragging, copyMessage, batches,
             pendingCopies, timers, clipboard, hasClipboardApi, tempNodes, nCalls,
             nManual, lastCall, msgTimer, completed, cleared>>

xmlVars == <<xmlIn, xmlDoc, xmlPc>>

(***************************************************************************)
(* Bounds of the model.                                                    *)
(***************************************************************************)
\* readAndSetFiles invocations plus copyManually clicks in one run
MaxCalls == 2
\* files in one selection or drop
MaxFiles == 2
\* characters in a content string handed to convertToXML
MaxLen == 5

(***************************************************************************)
(* String helpers.                                                         *)
(***************************************************************************)
RECURSIVE Flatten(_)
Flatten(ss) == IF ss = <<>> THEN <<>> ELSE Head(ss) \o Flatten(Tail(ss))

\* String.prototype.replace(/c/g, rep) for a one-character pattern c
RECURSIVE ReplaceChar(_, _, _)
ReplaceChar(s, c, rep) ==
  IF s = <<>> THEN <<>>
  ELSE (IF Head(s) = c THEN rep ELSE <<Head(s)>>) \o ReplaceChar(Tail(s), c, rep)

IsPrefix(p, s) == Len(p) <= Len(s) /\ SubSeq(s, 1, Len(p)) = p

\* a global, left-to-right, non-overlapping replacement of the substring pat
RECURSIVE ReplaceSeq(_, _, _)
ReplaceSeq(s, pat, rep) ==
  IF s = <<>> THEN <<>>
  ELSE IF IsPrefix(pat, s)
       THEN rep \o ReplaceSeq(SubSeq(s, Len(pat) + 1, Len(s)), pat, rep)
       ELSE <<Head(s)>> \o ReplaceSeq(Tail(s), pat, rep)

WhiteSpace == {" ", "\n", "\t", "\r"}

RECURSIVE TrimStart(_)
TrimStart(s) ==
  IF s # <<>> /\ Head(s) \in WhiteSpace THEN TrimStart(Tail(s)) ELSE s

RECURSIVE TrimEnd(_)
TrimEnd(s) ==
  IF s # <<>> /\ s[Len(s)] \in WhiteSpace THEN TrimEnd(SubSeq(s, 1, Len(s) - 1)) ELSE s

\* String.prototype.trim
Trim(s) == TrimEnd(TrimStart(s))

(***************************************************************************)
(* convertToXML                                                            *)
(***************************************************************************)
EntAmp == <<"&", "a", "m", "p", ";">>
EntLt == <<"&", "l", "t", ";">>
EntGt == <<"&", "g", "t", ";">>
EntQuot == <<"&", "q", "u", "o", "t", ";">>
EntApos == <<"&", "a", "p", "o", "s", ";">>
Entities == {EntAmp, EntLt, EntGt, EntQuot, EntApos}

XmlOpen == <<"<", "f", "i", "l", "e", "s", ">">>
XmlFileOpen == <<"\n", " ", " ", "<", "f", "i", "l", "e", " ", "n", "a", "m", "e", "=", "\"">>
XmlNameClose == <<"\"", ">">>
XmlFileClose == <<"<", "/", "f", "i", "l", "e", ">">>
XmlClose == <<"\n", "<", "/", "f", "i", "l", "e", "s", ">">>

\* the ampersand is escaped after the other four characters
EscapeContentAmpLast(content) ==
  ReplaceChar(
    ReplaceChar(
      ReplaceChar(
        ReplaceChar(
          ReplaceChar(content, "<", EntLt),
          ">", EntGt),
        "\"", EntQuot),
      "'", EntApos),
    "&", EntAmp)

\* the chain of five replace calls that builds escapedContent
EscapeContent(content) ==
  ReplaceChar(
    ReplaceChar(
      ReplaceChar(
        ReplaceChar(
          ReplaceChar(content, "&", EntAmp),
          "<", EntLt),
        ">", EntGt),
      "\"", EntQuot),
    "'", EntApos)

XmlFile(file) ==
  XmlFileOpen \o file.fileName \o XmlNameClose \o EscapeContent(file.content) \o XmlFileClose

ConvertToXML(data) ==
  XmlOpen \o Flatten([i \in 1..Len(data) |-> XmlFile(data[i])]) \o XmlClose

(***************************************************************************)
(* convertToMarkdown                                                       *)
(***************************************************************************)
MdHeading == <<"#", "#", " ">>
\* the grave accent, which a TLA+ string literal cannot hold
BackTick == "GRAVE"
MdFenceOpen == <<"\n", BackTick, BackTick, BackTick, "\n">>
MdFenceClose == <<"\n", BackTick, BackTick, BackTick, "\n", "\n">>

MdFile(file) ==
  MdHeading \o file.fileName \o MdFenceOpen \o file.content \o MdFenceClose

ConvertToMarkdown(data) ==
  Trim(Flatten([i \in 1..Len(data) |-> MdFile(data[i])]))

(***************************************************************************)
(* JSON.stringify(data, null, 2) of an array of {fileName, content}        *)
(***************************************************************************)
JsonEmpty == <<"[", "]">>
JsonArrayOpen == <<"[">>
JsonArrayClose == <<"\n", "]">>
JsonItemOpen == <<"\n", " ", " ", "{", "\n", " ", " ", " ", " ", "\"", "f", "i", "l", "e", "N", "a", "m", "e", "\"", ":", " ">>
JsonItemMid == <<",", "\n", " ", " ", " ", " ", "\"", "c", "o", "n", "t", "e", "n", "t", "\"", ":", " ">>
JsonItemClose == <<"\n", " ", " ", "}">>

JsonEscapeChar(c) ==
  CASE c = "\"" -> <<"\\", "\"">>
    [] c = "\\" -> <<"\\", "\\">>
    [] c = "\n" -> <<"\\", "n">>
    [] c = "\t" -> <<"\\", "t">>
    [] c = "\r" -> <<"\\", "r">>
    [] OTHER -> <<c>>

JsonString(s) ==
  <<"\"">> \o Flatten([i \in 1..Len(s) |-> JsonEscapeChar(s[i])]) \o <<"\"">>

JsonItem(file) ==
  JsonItemOpen \o JsonString(file.fileName) \o JsonItemMid \o JsonString(file.content)
    \o JsonItemClose

RECURSIVE JsonItems(_)
JsonItems(data) ==
  IF Len(data) = 1 THEN JsonItem(data[1])
  ELSE JsonItem(Head(data)) \o <<",">> \o JsonItems(Tail(data))

JsonStringify(data) ==
  IF data = <<>> THEN JsonEmpty
  ELSE JsonArrayOpen \o JsonItems(data) \o JsonArrayClose

(***************************************************************************)
(* getExportOutput: the closure's selectedExportFormat selects the         *)
(* converter; data defaults to the closure's filesData.                    *)
(***************************************************************************)
Formats == {"json", "xml", "markdown"}

GetExportOutput(data, format) ==
  CASE format = "json" -> JsonStringify(data)
    [] format = "xml" -> ConvertToXML(data)
    [] format = "markdown" -> ConvertToMarkdown(data)
    [] OTHER -> <<>>

(***************************************************************************)
(* File handles: a declared name and the text a successful read yields.    *)
(***************************************************************************)
FileNames == <<"a", "b", "c", "d">>
FileTexts == <<"x", "&", "<", "\"">>

\* the k-th file of the user's folder
File(k) ==
  [name |-> <<FileNames[((k - 1) % 4) + 1]>>, content |-> <<FileTexts[((k - 1) % 4) + 1]>>]

\* the file lists an input event may carry: the first n files, n = 0..MaxFiles
FileLists == {[i \in 1..n |-> File(i)] : n \in 0..MaxFiles}

NoRecord == [fileName |-> <<>>, content |-> <<>>]

\* reader.onload: resolve(event.target.result)
ReadFileAsText(file) == file.content

\* the record the mapped async callback returns for one file
FileRecord(file) == [fileName |-> file.name, content |-> ReadFileAsText(file)]

\* the number of reads of a batch that have completed
NumResolved(slots) == Cardinality({j \in 1..Len(slots) : slots[j] = "ok"})

\* the values are stored in the order the reads complete
ResolveInCompletionOrder(values, slots, index, v) ==
  [values EXCEPT ![NumResolved(slots) + 1] = v]

\* Promise.all stores the value of its index-th promise at position index
PromiseAllResolveElement(values, slots, index, v) ==
  [values EXCEPT ![index] = v]

\* the state of one readAndSetFiles(fileArray) invocation; fmt is the
\* selectedExportFormat of the render whose handler was invoked, which the
\* invocation's getExportOutput closes over; reordered records that a read
\* completed before the read of an earlier file of the list
NewBatch(files) ==
  [files |-> files,
   fmt |-> selectedExportFormat,
   slots |-> [i \in 1..Len(files) |-> "pending"],
   values |-> [i \in 1..Len(files) |-> NoRecord],
   reordered |-> FALSE,
   pc |-> "reading"]

(***************************************************************************)
(* autoCopyToClipboard                                                     *)
(***************************************************************************)
\* what the browser does in one run of the fallback: the legacy copy command copies
\* ("ok") or returns false ("execFalse"), or a step of the block throws, before
\* appendChild has run ("throwCreate") or after it, in select or execCommand
\* ("throwSelect")
FallbackOutcomes == {"ok", "execFalse", "throwCreate", "throwSelect"}

\* the try block without its catch
FallbackCopyNoCatch(fb) ==
  IF fb = "throwCreate"
    THEN [ret |-> FALSE, thrown |-> TRUE, placed |-> FALSE, left |-> 0]
  ELSE IF fb = "throwSelect"
    THEN [ret |-> FALSE, thrown |-> TRUE, placed |-> FALSE, left |-> 1]
  ELSE [ret |-> TRUE, thrown |-> FALSE, placed |-> (fb = "ok"), left |-> 0]

\* the fallback: createElement ... appendChild, select, execCommand('copy'),
\* removeChild, return true; catch: return false.  left counts the textarea
\* still in document.body at the return.
FallbackCopy(fb) ==
  IF fb = "throwCreate"
    THEN [ret |-> FALSE, thrown |-> FALSE, placed |-> FALSE, left |-> 0]
  ELSE IF fb = "throwSelect"
    THEN [ret |-> FALSE, thrown |-> FALSE, placed |-> FALSE, left |-> 1]
  ELSE [ret |-> TRUE, thrown |-> FALSE, placed |-> (fb = "ok"), left |-> 0]

\* primary: "unavailable" (the if is skipped), "succeeds" (return true) or
\* "throws" (the empty catch, then the fallback)
AutoCopyToClipboard(primary, fb) ==
  IF primary = "succeeds"
    THEN [ret |-> TRUE, thrown |-> FALSE, placed |-> TRUE, left |-> 0]
    ELSE FallbackCopy(fb)

StatusMessage(kind, success) ==
  IF kind = "auto"
    THEN (IF success THEN "Copied to clipboard!" ELSE "Clipboard copy failed.")
    ELSE (IF success THEN "Copied to clipboard (manual)!"
                     ELSE "Manual copy failed or was blocked in Firefox.")

NoCall ==
  [id |-> 0, kind |-> "none", batch |-> 0, primary |-> "none",
   ret |-> FALSE, thrown |-> FALSE, placed |-> FALSE, left |-> 0]

\* the call id settles and its caller resumes: setCopyMessage, setTimeout
SettleCall(id, kind, b, text, primary, fb) ==
  LET r == AutoCopyToClipboard(primary, fb) IN
  /\ clipboard' = IF r.placed THEN text ELSE clipboard
  /\ tempNodes' = tempNodes + r.left
  /\ lastCall' = [id |-> id, kind |-> kind, batch |-> b, primary |-> primary,
                  ret |-> r.ret, thrown |-> r.thrown, placed |-> r.placed,
                  left |-> r.left]
  /\ IF r.thrown
       THEN UNCHANGED <<copyMessage, timers, msgTimer>>
       ELSE /\ copyMessage' = StatusMessage(kind, r.ret)
            /\ timers' = Append(timers, id)
            /\ msgTimer' = id

\* the results are appended to the list
AppendedFilesData(batch, results) == filesData \o results

\* setFilesData(results)
NextFilesData(batch, results) == results

\* getExportOutput() without its argument: the list as it was before the batch
AutoExportDefaultData(batch, results) == GetExportOutput(filesData, batch.fmt)

\* const exported = getExportOutput(results)
AutoExport(batch, results) == GetExportOutput(results, batch.fmt)

\* readAndSetFiles after the await of Promise.all: batch bid, whose record nb
\* holds the results, within the batch list bs
JoinEffects(bid, nb, bs) ==
  LET results == nb.values
      exported == AutoExport(nb, results)
      id == nCalls + 1
  IN
  /\ filesData' = NextFilesData(nb, results)
  /\ completed' = Append(completed, bid)
  /\ cleared' = FALSE
  /\ nCalls' = id
  /\ IF hasClipboardApi
       THEN /\ pendingCopies' = pendingCopies \cup
                 {[id |-> id, kind |-> "auto", batch |-> bid, text |-> exported]}
            /\ batches' = [bs EXCEPT ![bid].pc = "copying"]
            /\ UNCHANGED <<clipboard, tempNodes, lastCall, copyMessage, timers, msgTimer>>
       ELSE /\ \E fb \in FallbackOutcomes :
                 SettleCall(id, "auto", bid, exported, "unavailable", fb)
            /\ batches' = [bs EXCEPT ![bid].pc = "done"]
            /\ UNCHANGED pendingCopies

(***************************************************************************)
(* The handlers.                                                           *)
(***************************************************************************)
HandleFileInputChange(files) ==
  \/ /\ Len(files) = 0
     /\ UNCHANGED vars
  \/ /\ Len(files) # 0
     /\ Len(batches) + nManual < MaxCalls
     /\ batches' = Append(batches, NewBatch(files))
     /\ UNCHANGED <<filesData, selectedExportFormat, isDragging, copyMessage,
                    pendingCopies, timers, clipboard, hasClipboardApi, tempNodes,
                    nCalls, nManual, lastCall, msgTimer, completed, cleared, xmlVars>>

HandleDragOver ==
  /\ isDragging' = TRUE
  /\ UNCHANGED <<filesData, selectedExportFormat, copyMessage, batches,
                 pendingCopies, timers, clipboard, hasClipboardApi, tempNodes,
                 nCalls, nManual, lastCall, msgTimer, completed, cleared, xmlVars>>

HandleDragLeave ==
  /\ isDragging' = FALSE
  /\ UNCHANGED <<filesData, selectedExportFormat, copyMessage, batches,
                 pendingCopies, timers, clipboard, hasClipboardApi, tempNodes,
                 nCalls, nManual, lastCall, msgTimer, completed, cleared, xmlVars>>

\* Promise.all of no promises is fulfilled at once, so a drop of no files
\* runs readAndSetFiles up to its clipboard write within the drop event
HandleDrop(files) ==
  /\ Len(batches) + nManual < MaxCalls
  /\ isDragging' = FALSE
  /\ \/ /\ Len(files) = 0
        /\ JoinEffects(Len(batches) + 1, NewBatch(files), Append(batches, NewBatch(files)))
        /\ UNCHANGED <<selectedExportFormat, hasClipboardApi, nManual, xmlVars>>
     \/ /\ Len(files) # 0
        /\ batches' = Append(batches, NewBatch(files))
        /\ UNCHANGED <<filesData, selectedExportFormat, copyMessage,
                       pendingCopies, timers, clipboard, hasClipboardApi, tempNodes,
                       nCalls, nManual, lastCall, msgTimer, completed, cleared, xmlVars>>

\* reader.onload of file i of batch b.  Once Promise.all has rejected, the
\* settling of its other promises changes nothing, and is not a step here.
ReadComplete(b, i) ==
  /\ batches[b].pc = "reading"
  /\ batches[b].slots[i] = "pending"
  /\ LET batch == batches[b]
         nb == [batch EXCEPT
                  !.slots[i] = "ok",
                  !.values = PromiseAllResolveElement(batch.values, batch.slots, i,
                                                      FileRecord(batch.files[i])),
                  !.reordered = @ \/ \E j \in 1..(i - 1) : batch.slots[j] = "pending"]
     IN
     IF \A j \in 1..Len(nb.files) : nb.slots[j] = "ok"
       THEN /\ JoinEffects(b, nb, [batches EXCEPT ![b] = nb])
            /\ UNCHANGED <<selectedExportFormat, isDragging, hasClipboardApi,
                           nManual, xmlVars>>
       ELSE /\ batches' = [batches EXCEPT ![b] = nb]
            /\ UNCHANGED <<filesData, selectedExportFormat, isDragging, copyMessage,
                           pendingCopies, timers, clipboard, hasClipboardApi, tempNodes,
                           nCalls, nManual, lastCall, msgTimer, completed, cleared,
                           xmlVars>>

\* the records read so far become the file list when a read fails
ReadErrorPartial(b, i) ==
  /\ batches[b].pc = "reading"
  /\ batches[b].slots[i] = "pending"
  /\ batches' = [batches EXCEPT ![b].slots[i] = "err", ![b].pc = "failed"]
  /\ filesData' = SelectSeq(batches[b].values, LAMBDA v : v # NoRecord)
  /\ UNCHANGED <<selectedExportFormat, isDragging, copyMessage,
                 pendingCopies, timers, clipboard, hasClipboardApi, tempNodes,
                 nCalls, nManual, lastCall, msgTimer, completed, cleared, xmlVars>>

\* reader.onerror of file i of batch b: Promise.all rejects with the first
\* failure and the catch of readAndSetFiles logs it
ReadError(b, i) ==
  /\ batches[b].pc = "reading"
  /\ batches[b].slots[i] = "pending"
  /\ batches' = [batches EXCEPT ![b].slots[i] = "err", ![b].pc = "failed"]
  /\ UNCHANGED <<filesData, selectedExportFormat, isDragging, copyMessage,
                 pendingCopies, timers, clipboard, hasClipboardApi, tempNodes,
                 nCalls, nManual, lastCall, msgTimer, completed, cleared, xmlVars>>

\* the select's onChange
SetSelectedExportFormat(f) ==
  /\ f # selectedExportFormat
  /\ selectedExportFormat' = f
  /\ UNCHANGED <<filesData, isDragging, copyMessage, batches,
                 pendingCopies, timers, clipboard, hasClipboardApi, tempNodes,
                 nCalls, nManual, lastCall, msgTimer, completed, cleared, xmlVars>>

ClearFiles ==
  /\ filesData' = <<>>
  /\ copyMessage' = ""
  /\ cleared' = TRUE
  /\ msgTimer' = 0
  /\ UNCHANGED <<selectedExportFormat, isDragging, batches,
                 pendingCopies, timers, clipboard, hasClipboardApi, tempNodes,
                 nCalls, nManual, lastCall, completed, xmlVars>>

\* the button is rendered only while filesData.length > 0
CopyManually ==
  /\ Len(filesData) > 0
  /\ Len(batches) + nManual < MaxCalls
  /\ nManual' = nManual + 1
  /\ nCalls' = nCalls + 1
  /\ LET textToCopy == GetExportOutput(filesData, selectedExportFormat)
         id == nCalls + 1
     IN
     IF hasClipboardApi
       THEN /\ pendingCopies' = pendingCopies \cup
                 {[id |-> id, kind |-> "manual", batch |-> 0, text |-> textToCopy]}
            /\ UNCHANGED <<clipboard, tempNodes, lastCall, copyMessage, timers, msgTimer>>
       ELSE /\ \E fb \in FallbackOutcomes :
                 SettleCall(id, "manual", 0, textToCopy, "unavailable", fb)
            /\ UNCHANGED pendingCopies
  /\ UNCHANGED <<filesData, selectedExportFormat, isDragging, batches,
                 hasClipboardApi, completed, cleared, xmlVars>>

\* navigator.clipboard.writeText of call c settles and autoCopyToClipboard
\* runs to its return
SettlePrimary(c) ==
  /\ c \in pendingCopies
  /\ pendingCopies' = pendingCopies \ {c}
  /\ \/ SettleCall(c.id, c.kind, c.batch, c.text, "succeeds", "ok")
     \/ \E fb \in FallbackOutcomes :
          SettleCall(c.id, c.kind, c.batch, c.text, "throws", fb)
  /\ batches' = IF c.kind = "auto"
                  THEN [batches EXCEPT ![c.batch].pc = "done"]
                  ELSE batches
  /\ UNCHANGED <<filesData, selectedExportFormat, isDragging, hasClipboardApi,
                 nCalls, nManual, completed, cleared, xmlVars>>

\* setTimeout(() => setCopyMessage(''), 3000): the oldest timer fires
TimerFire ==
  /\ timers # <<>>
  /\ timers' = Tail(timers)
  /\ copyMessage' = ""
  /\ msgTimer' = IF copyMessage' = copyMessage THEN msgTimer ELSE 0
  /\ UNCHANGED <<filesData, selectedExportFormat, isDragging, batches,
                 pendingCopies, clipboard, hasClipboardApi, tempNodes,
                 nCalls, nManual, lastCall, completed, cleared, xmlVars>>

AppStart ==
  /\ filesData = <<>>
  /\ selectedExportFormat = "json"
  /\ isDragging = FALSE
  /\ copyMessage = ""
  /\ batches = <<>>
  /\ pendingCopies = {}
  /\ timers = <<>>
  /\ clipboard = <<>>
  /\ tempNodes = 0
  /\ nCalls = 0
  /\ nManual = 0
  /\ lastCall = NoCall
  /\ msgTimer = 0
  /\ completed = <<>>
  /\ cleared = FALSE

Init ==
  /\ AppStart
  /\ hasClipboardApi \in BOOLEAN
  /\ xmlIn = <<>>
  /\ xmlDoc = <<>>
  /\ xmlPc = "idle"

Next ==
  \/ \E files \in FileLists : HandleFileInputChange(files)
  \/ \E files \in FileLists : HandleDrop(files)
  \/ HandleDragOver
  \/ HandleDragLeave
  \/ \E b \in 1..Len(batches) : \E i \in 1..Len(batches[b].files) : ReadComplete(b, i)
  \/ \E b \in 1..Len(batches) : \E i \in 1..Len(batches[b].files) : ReadError(b, i)
  \/ \E f \in Formats : SetSelectedExportFormat(f)
  \/ ClearFiles
  \/ CopyManually
  \/ \E c \in pendingCopies : SettlePrimary(c)
  \/ TimerFire

Spec == Init /\ [][Next]_vars

(***************************************************************************)
(* convertToXML applied to one file whose content is any string of at most *)
(* MaxLen characters over the five reserved characters and the characters  *)
(* that make "&lt;" a possible content.                                    *)
(***************************************************************************)
Alphabet == {"&", "<", ">", "\"", "'", ";", "l", "t"}

Contents == UNION {[1..n -> Alphabet] : n \in 0..MaxLen}

InitXml ==
  /\ AppStart
  /\ hasClipboardApi = TRUE
  /\ xmlIn \in Contents
  /\ xmlDoc = <<>>
  /\ xmlPc = "in"

XmlConvert ==
  /\ xmlPc = "in"
  /\ xmlDoc' = ConvertToXML(<<[fileName |-> <<"a">>, content |-> xmlIn]>>)
  /\ xmlPc' = "out"
  /\ UNCHANGED <<appVars, xmlIn>>

NextXml == XmlConvert

SpecXml == InitXml /\ [][NextXml]_vars

\* the text between <file name="a"> and </file> of a one-file document
ElementBody(doc) ==
  SubSeq(doc,
         Len(XmlOpen) + Len(XmlFileOpen) + 1 + Len(XmlNameClose) + 1,
         Len(doc) - Len(XmlFileClose) - Len(XmlClose))

\* the five substitutions reversed, &amp; last
DecodeEntities(s) ==
  ReplaceSeq(
    ReplaceSeq(
      ReplaceSeq(
        ReplaceSeq(
          ReplaceSeq(s, EntApos, <<"'">>),
          EntQuot, <<"\"">>),
        EntGt, <<">">>),
      EntLt, <<"<">>),
    EntAmp, <<"&">>)

StartsEntity(s, i) ==
  \E e \in Entities : i + Len(e) - 1 <= Len(s) /\ SubSeq(s, i, i + Len(e) - 1) = e

(***************************************************************************)
(* The claims.                                                             *)
(***************************************************************************)
RecordsOf(files) ==
  [i \in 1..Len(files) |-> [fileName |-> files[i].name, content |-> files[i].content]]

Joined(b) == batches[b].pc \in {"copying", "done"}

NoReadInFlight == \A b \in 1..Len(batches) : batches[b].pc # "reading"

\* every selection or drop so far carried at least one file
AllCarriedFiles == \A b \in 1..Len(batches) : batches[b].files # <<>>

\* C1: the results of a batch whose reads all succeeded have the length of the
\* file list, and the i-th result carries the name and the content of the
\* i-th file, in whatever order the reads completed.
C1_ResultsInInputOrder ==
  \A b \in 1..Len(batches) :
    Joined(b) =>
      /\ Len(batches[b].values) = Len(batches[b].files)
      /\ \A i \in 1..Len(batches[b].files) :
           /\ batches[b].values[i].fileName = batches[b].files[i].name
           /\ batches[b].values[i].content = batches[b].files[i].content

\* a two-file batch joined after its second read completed before its first
C1_Witness ==
  \E b \in 1..Len(batches) :
    Joined(b) /\ batches[b].reordered /\ Len(batches[b].files) = 2

\* C2: the step in which a read of a batch fails changes neither filesData,
\* copyMessage, the clipboard, the timers nor the copy calls; a failed batch
\* stays failed, is never among the completed ones and never the origin of
\* a copy call.
C2_FailedBatchDiscarded ==
  [][\A b \in 1..Len(batches) :
       /\ (batches'[b].pc = "failed" /\ batches'[b] # batches[b]) =>
            UNCHANGED <<filesData, copyMessage, clipboard, timers, pendingCopies,
                        nCalls, lastCall, tempNodes>>
       /\ batches[b].pc = "failed" => batches'[b].pc = "failed"
       /\ batches'[b].pc = "failed" =>
            /\ \A k \in 1..Len(completed') : completed'[k] # b
            /\ \A c \in pendingCopies' : c.batch # b
            /\ lastCall'.batch # b]_vars

\* a batch failed after another of its reads had succeeded, with the list of
\* an earlier batch still in filesData
C2_Witness ==
  \E b \in 1..Len(batches) :
    /\ batches[b].pc = "failed"
    /\ \E i \in 1..Len(batches[b].files) : batches[b].slots[i] = "ok"
    /\ filesData # <<>>

\* C3: every autoCopyToClipboard call that has settled returned a boolean and
\* did not throw.
C3_NeverRejects ==
  lastCall.id # 0 => (lastCall.thrown = FALSE /\ lastCall.ret \in BOOLEAN)

\* the primary strategy threw and then the fallback threw in select
C3_Witness ==
  /\ lastCall.id # 0
  /\ lastCall.primary = "throws"
  /\ lastCall.left = 1
  /\ lastCall.ret = FALSE

\* C4: no temporary textarea remains in the document after a copy attempt
\* (stated for the copy attempts of selections and drops that carried files).
C4_NoTempNodeRemains == AllCarriedFiles => tempNodes = 0

\* C5: a call that returned true placed its text on the clipboard (stated
\* for the copy attempts of selections and drops that carried files).
C5_TrueOnlyIfPlaced ==
  (AllCarriedFiles /\ lastCall.id # 0 /\ lastCall.ret) => lastCall.placed

\* C6: the element body of the document has no raw <, >, " or ', every & in
\* it starts one of the five entities, and decoding the entities (&amp; last)
\* gives the content back.
C6_EscapeRoundTrip ==
  xmlPc = "out" =>
    LET body == ElementBody(xmlDoc) IN
    /\ \A i \in 1..Len(body) : body[i] \notin {"<", ">", "\"", "'"}
    /\ \A i \in 1..Len(body) : body[i] = "&" => StartsEntity(body, i)
    /\ DecodeEntities(body) = xmlIn

\* the content holding each of the five reserved characters was converted
C6_Witness ==
  /\ xmlPc = "out"
  /\ xmlIn = <<"&", "<", ">", "\"", "'">>

\* C7: a timer that clears a message is the timer started by the attempt
\* that set this message (stated for the copy attempts of selections and
\* drops that carried files, and of the manual copy).
C7_ClearedOnlyByOwnTimer ==
  [][(/\ AllCarriedFiles
      /\ timers # <<>>
      /\ timers' = Tail(timers)
      /\ copyMessage # ""
      /\ copyMessage' = "") => Head(timers) = msgTimer]_vars

LatestSupplied ==
  LET ok == {b \in 1..Len(batches) : Joined(b)} IN
  IF ok = {} THEN <<>>
  ELSE RecordsOf(batches[CHOOSE b \in ok : \A c \in ok : c <= b].files)

\* C8 as stated: with no read in flight, filesData is the records of the most
\* recently supplied batch whose reads succeeded (stated for selections and
\* drops that carried files, with no Clear since the last batch completed).
C8_LatestSuppliedWins ==
  (AllCarriedFiles /\ NoReadInFlight /\ ~cleared) => filesData = LatestSupplied

\* C8 amended: filesData is the records, in input order, of the batch whose
\* reads completed last, and is empty before any batch completed and after
\* Clear.
C8_LatestCompletedWins ==
  filesData = IF cleared \/ completed = <<>>
                THEN <<>>
                ELSE RecordsOf(batches[completed[Len(completed)]].files)

\* two batches overlapped and the one supplied first completed last
C8_Witness ==
  /\ AllCarriedFiles
  /\ NoReadInFlight
  /\ completed = <<2, 1>>
  /\ batches[1].files # batches[2].files
  /\ ~cleared

\* C9 as stated: when an automatic copy places its text, the clipboard holds
\* the export of the current filesData under the current format.
C9_ClipboardIsPanel ==
  [][(/\ lastCall' # lastCall
      /\ lastCall'.kind = "auto"
      /\ lastCall'.ret
      /\ lastCall'.placed) =>
       clipboard' = GetExportOutput(filesData', selectedExportFormat')]_vars

\* C9 amended: the text an automatic copy placed is the export of its own
\* batch's records under the format selected when the batch was supplied.
C9_ClipboardIsBatchExport ==
  (lastCall.kind = "auto" /\ lastCall.placed) =>
    clipboard = GetExportOutput(RecordsOf(batches[lastCall.batch].files),
                                batches[lastCall.batch].fmt)

\* an automatic copy placed its text after the format was changed in flight
C9_Witness ==
  /\ lastCall.kind = "auto"
  /\ lastCall.placed
  /\ selectedExportFormat # batches[lastCall.batch].fmt
  /\ filesData # <<>>
  /\ clipboard # GetExportOutput(filesData, selectedExportFormat)

\* C10: an input event that carries no file leaves filesData, copyMessage,
\* the clipboard, the timers and the copy calls as they were.
C10_EmptyInputChangesNothing ==
  [][(/\ Len(batches') = Len(batches) + 1
      /\ batches'[Len(batches')].files = <<>>) =>
       UNCHANGED <<filesData, copyMessage, clipboard, timers, pendingCopies, nCalls>>]_vars

====
